---- MODULE Spec2Model ----
(***************************************************************************)
(* A model of the clipper2 builder and of its PolyTree result              *)
(* (src/src/clipper.rs).                                                   *)
(*                                                                         *)
(* The state is the caller's builder values (the typestate wrappers around *)
(* one engine handle), the position of the method that is running, and the *)
(* sequence of engine primitives invoked so far.  The engine itself is a   *)
(* black box: what it writes into the output buffers and what it returns   *)
(* are chosen nondeterministically when an execute primitive is called.    *)
(***************************************************************************)
EXTENDS Integers, Sequences, FiniteSets, TLC

VARIABLES
    self,       \* self[b]: the builder value the caller / running method holds
    clipper,    \* clipper[b]: the local `clipper` of a state-changing method
    pc,         \* pc[b]: position of builder b's running method
    arg,        \* arg[b]: arguments of the running method
    out,        \* out[b]: what the engine returned and wrote at execute
    ret,        \* ret[b]: the value returned by the boolean operation
    held,       \* held[b]: a PolyTree node the caller has taken out of the tree
    edits,      \* edits[b]: the caller's removals from and pushes onto children
    query,      \* query[b]: the caller's last query of the returned tree
    api,        \* api[b]: the public methods the caller invoked on builder b
    input,      \* the arguments of the free function in progress
    calls,      \* the engine primitives invoked so far, in order
    nextId      \* the next fresh engine allocation id

vars == <<self, clipper, pc, arg, out, ret, held, edits, query, api, input, query, api, input,
          calls, nextId>>

(***************************************************************************)
(* Bounds                                                                  *)
(***************************************************************************)
MaxAdds == 3        \* add_* calls made on one builder
NGeoms == 2         \* distinct input geometries the caller passes
MaxTreeNodes == 3   \* nodes of an engine tree below its root
MaxEdits == 2       \* removals and pushes the caller makes through children_mut

Null == [none |-> TRUE]

\* the builder values a run may construct, and those of a single-builder run
BuilderIds == {1, 2}

OneBuilder == {1}

(***************************************************************************)
(* Geometry containers and their conversions (crate::Path, crate::Paths,   *)
(* crate::PointScaler).  An engine coordinate is an integer on the fixed   *)
(* grid; an application coordinate is the pair <<n, m>> standing for n/m;  *)
(* a point is a pair <<x, y>> of coordinates.                              *)
(***************************************************************************)
Multiplier == 100

scale(x) == (x[1] * Multiplier) \div x[2]

descale(n) == <<n, Multiplier>>

Path_from_clipperpath64(p64) ==
    [i \in 1..Len(p64) |-> <<descale(p64[i][1]), descale(p64[i][2])>>]

Path_to_clipperpath64(p) ==
    [i \in 1..Len(p) |-> <<scale(p[i][1]), scale(p[i][2])>>]

from_clipperpaths64(ps64) ==
    [i \in 1..Len(ps64) |-> Path_from_clipperpath64(ps64[i])]

to_clipperpaths64(ps) == [i \in 1..Len(ps) |-> Path_to_clipperpath64(ps[i])]

\* the geometries the caller passes to add_*: one triangle each
Geom(i) ==
    << << <<descale(0), descale(0)>>,
          <<descale(100 * i), descale(0)>>,
          <<descale(0), descale(100 * i + 50)>> >> >>

Geoms == {Geom(i) : i \in 1..NGeoms}

ClipTypes == {"Union", "Difference", "Intersection", "Xor"}

FillRules == {"EvenOdd", "NonZero"}

\* clip_type.into(), fill_rule.into(): the engine's enumeration values
ClipType_into(clip_type) ==
    [Union |-> "UNION", Difference |-> "DIFFERENCE",
     Intersection |-> "INTERSECTION", Xor |-> "XOR"][clip_type]

FillRule_into(fill_rule) ==
    [EvenOdd |-> "EVEN_ODD", NonZero |-> "NON_ZERO"][fill_rule]

(***************************************************************************)
(* The log of engine primitives.  ptr is the allocation the primitive acts *)
(* on (or creates), args its other arguments.                              *)
(***************************************************************************)
Call(f, ptr, args) == [f |-> f, ptr |-> ptr, args |-> args]

\* a pointer is <<allocation id, node>>: node is 0 except for the nodes of an
\* engine tree, which are numbered from 1 (the root) inside the tree's allocation
Ptr(id) == <<id, 0>>

NodePtr(tree_ptr, n) == <<tree_ptr[1], n>>

CountCalls(log, f, ptr) ==
    Cardinality({i \in 1..Len(log) : log[i].f = f /\ log[i].ptr = ptr})

RegisterFns == {"clipper_clipper64_add_subject",
                "clipper_clipper64_add_open_subject",
                "clipper_clipper64_add_clip"}

ExecuteFns == {"clipper_clipper64_execute",
               "clipper_clipper64_execute_tree_with_open"}

\* positions (in the log) of the calls on handle h whose primitive is in fs
CallsOn(log, fs, h) == {i \in 1..Len(log) : log[i].f \in fs /\ log[i].ptr = h}

(***************************************************************************)
(* Clipper<S, P>: the wrapper value.                                       *)
(***************************************************************************)
Wrapper(ptr, keep, state) ==
    [ptr |-> ptr, keep_ptr_on_drop |-> keep, _state |-> state]

DropAlways(w) == <<Call("clipper_delete_clipper64", w.ptr, <<>>)>>

\* impl Drop for Clipper: the primitives invoked when wrapper w is dropped
Drop(w) ==
    IF ~w.keep_ptr_on_drop
    THEN <<Call("clipper_delete_clipper64", w.ptr, <<>>)>>
    ELSE <<>>

\* no method of another builder is in progress (the program is single-threaded)
Quiescent == {"unborn", "idle", "returned", "dropped"}

NoneRunning == \A b \in BuilderIds : pc[b] \in Quiescent

Init ==
    /\ self = [b \in BuilderIds |-> Null]
    /\ clipper = [b \in BuilderIds |-> Null]
    /\ pc = [b \in BuilderIds |-> "unborn"]
    /\ arg = [b \in BuilderIds |-> Null]
    /\ out = [b \in BuilderIds |-> Null]
    /\ ret = [b \in BuilderIds |-> Null]
    /\ held = [b \in BuilderIds |-> Null]
    /\ edits = [b \in BuilderIds |-> [removed |-> 0, pushed |-> 0]]
    /\ query = [b \in BuilderIds |-> Null]
    /\ api = [b \in BuilderIds |-> <<>>]
    /\ input = Null
    /\ calls = <<>>
    /\ nextId = 1

\* the caller's program so far: builder b's public methods in invocation order
Invoked(b, method, args) ==
    [api EXCEPT ![b] = Append(@, [method |-> method, args |-> args])]

AddMethods == {"add_subject", "add_open_subject", "add_clip"}

Adds(history) == SelectSeq(history, LAMBDA e : e.method \in AddMethods)

new_shared(b) ==
    /\ NoneRunning
    /\ pc[b] = "unborn"
    /\ IF nextId = 1
       THEN /\ calls' = calls \o <<Call("clipper_clipper64", Ptr(nextId), <<>>)>>
            /\ self' = [self EXCEPT ![b] = Wrapper(Ptr(nextId), FALSE, "NoSubjects")]
            /\ nextId' = nextId + 1
       ELSE /\ self' = [self EXCEPT ![b] = Wrapper(Ptr(1), FALSE, "NoSubjects")]
            /\ UNCHANGED <<calls, nextId>>
    /\ pc' = [pc EXCEPT ![b] = "idle"]
    /\ api' = Invoked(b, "new", <<>>)
    /\ UNCHANGED <<clipper, arg, out, ret, held, edits, query, input>>

\* Clipper::new: allocate the engine handle and wrap it
new(b) ==
    /\ NoneRunning
    /\ pc[b] = "unborn"
    /\ calls' = calls \o <<Call("clipper_clipper64", Ptr(nextId), <<>>)>>
    /\ self' = [self EXCEPT ![b] = Wrapper(Ptr(nextId), FALSE, "NoSubjects")]
    /\ nextId' = nextId + 1
    /\ pc' = [pc EXCEPT ![b] = "idle"]
    /\ api' = Invoked(b, "new", <<>>)
    /\ UNCHANGED <<clipper, arg, out, ret, held, edits, query, input>>

\* the builder value that add_* calls act on is idle and may take one more add
CanAdd(b, state) ==
    /\ NoneRunning
    /\ pc[b] = "idle"
    /\ self[b] # Null
    /\ self[b]._state = state
    /\ Len(Adds(api[b])) < MaxAdds

\* subject.into().to_clipperpaths64(); f(ptr, buffer); clipper_delete_paths64(buffer)
RegisterCalls(f, ptr, geom, id) ==
    << Call("to_clipperpaths64", Ptr(id), <<to_clipperpaths64(geom)>>),
       Call(f, ptr, <<Ptr(id)>>),
       Call("clipper_delete_paths64", Ptr(id), <<>>) >>

(***************************************************************************)
(* The state-changing methods, statement by statement:                     *)
(*     self.keep_ptr_on_drop = true;                                       *)
(*     let clipper = Clipper { ptr: self.ptr, keep_ptr_on_drop: false, .. } *)
(*     drop(self);                                                         *)
(*     clipper.add_xxx(geometry)                                           *)
(***************************************************************************)
Transition_flag_unset(b, from, label, geom) ==
    /\ CanAdd(b, from)
    /\ arg' = [arg EXCEPT ![b] = [geom |-> geom]]
    /\ pc' = [pc EXCEPT ![b] = label]
    /\ UNCHANGED <<self, clipper, out, ret, held, edits, query, input,
                   calls, nextId>>

Transition_flag(b, from, label, geom) ==
    /\ CanAdd(b, from)
    /\ self' = [self EXCEPT ![b].keep_ptr_on_drop = TRUE]
    /\ arg' = [arg EXCEPT ![b] = [geom |-> geom]]
    /\ pc' = [pc EXCEPT ![b] = label]
    /\ UNCHANGED <<clipper, out, ret, held, edits, query, input, calls,
                   nextId>>

Transition_construct(b, label, to, next) ==
    /\ pc[b] = label
    /\ clipper' = [clipper EXCEPT ![b] = Wrapper(self[b].ptr, FALSE, to)]
    /\ pc' = [pc EXCEPT ![b] = next]
    /\ UNCHANGED <<self, arg, out, ret, held, edits, query, api, input,
                   calls, nextId>>

Transition_drop(b, label, next) ==
    /\ pc[b] = label
    /\ calls' = calls \o Drop(self[b])
    /\ self' = [self EXCEPT ![b] = Null]
    /\ pc' = [pc EXCEPT ![b] = next]
    /\ UNCHANGED <<clipper, arg, out, ret, held, edits, query, api, input,
                   nextId>>

Transition_delegate(b, label, f) ==
    /\ pc[b] = label
    /\ calls' = calls \o RegisterCalls(f, clipper[b].ptr, arg[b].geom, nextId)
    /\ nextId' = nextId + 1
    /\ self' = [self EXCEPT ![b] = clipper[b]]
    /\ clipper' = [clipper EXCEPT ![b] = Null]
    /\ arg' = [arg EXCEPT ![b] = Null]
    /\ pc' = [pc EXCEPT ![b] = "idle"]
    /\ UNCHANGED <<out, ret, held, edits, query, api, input>>

\* Clipper<NoSubjects>::add_subject
NoSubjects_add_subject(b, subject) ==
    /\ Transition_flag(b, "NoSubjects", "ns_as_108", subject)
    /\ api' = Invoked(b, "add_subject", <<subject>>)

NoSubjects_add_subject_108(b) ==
    Transition_construct(b, "ns_as_108", "WithSubjects", "ns_as_115")

NoSubjects_add_subject_115(b) ==
    Transition_drop(b, "ns_as_115", "ns_as_117")

NoSubjects_add_subject_117(b) ==
    Transition_delegate(b, "ns_as_117", "clipper_clipper64_add_subject")

\* Clipper<NoSubjects>::add_open_subject
NoSubjects_add_open_subject(b, subject) ==
    /\ Transition_flag(b, "NoSubjects", "ns_ao_134", subject)
    /\ api' = Invoked(b, "add_open_subject", <<subject>>)

NoSubjects_add_open_subject_134(b) ==
    Transition_construct(b, "ns_ao_134", "WithSubjects", "ns_ao_141")

NoSubjects_add_open_subject_141(b) ==
    Transition_drop(b, "ns_ao_141", "ns_ao_143")

NoSubjects_add_open_subject_143_closed(b) ==
    Transition_delegate(b, "ns_ao_143", "clipper_clipper64_add_subject")

NoSubjects_add_open_subject_143(b) ==
    Transition_delegate(b, "ns_ao_143", "clipper_clipper64_add_open_subject")

\* Clipper<WithSubjects>::add_clip
WithSubjects_add_clip(b, clip) ==
    /\ Transition_flag(b, "WithSubjects", "ws_ac_207", clip)
    /\ api' = Invoked(b, "add_clip", <<clip>>)

WithSubjects_add_clip_207_stay(b) ==
    Transition_construct(b, "ws_ac_207", "WithSubjects", "ws_ac_214")

WithSubjects_add_clip_207(b) ==
    Transition_construct(b, "ws_ac_207", "WithClips", "ws_ac_214")

WithSubjects_add_clip_214(b) ==
    Transition_drop(b, "ws_ac_214", "ws_ac_216")

WithSubjects_add_clip_216(b) ==
    Transition_delegate(b, "ws_ac_216", "clipper_clipper64_add_clip")

(***************************************************************************)
(* The methods that keep the state: register and return self.              *)
(***************************************************************************)
Register(b, state, f, geom) ==
    /\ CanAdd(b, state)
    /\ calls' = calls \o RegisterCalls(f, self[b].ptr, geom, nextId)
    /\ nextId' = nextId + 1
    /\ UNCHANGED <<self, clipper, pc, arg, out, ret, held, edits, query, input>>

\* Clipper<WithSubjects>::add_subject
WithSubjects_add_subject(b, subject) ==
    /\ Register(b, "WithSubjects", "clipper_clipper64_add_subject", subject)
    /\ api' = Invoked(b, "add_subject", <<subject>>)

\* Clipper<WithSubjects>::add_open_subject
WithSubjects_add_open_subject(b, subject) ==
    /\ Register(b, "WithSubjects", "clipper_clipper64_add_open_subject", subject)
    /\ api' = Invoked(b, "add_open_subject", <<subject>>)

WithClips_add_clip_subject(b, clip) ==
    /\ Register(b, "WithClips", "clipper_clipper64_add_subject", clip)
    /\ api' = Invoked(b, "add_clip", <<clip>>)

\* Clipper<WithClips>::add_clip
WithClips_add_clip(b, clip) ==
    /\ Register(b, "WithClips", "clipper_clipper64_add_clip", clip)
    /\ api' = Invoked(b, "add_clip", <<clip>>)

\* the caller lets a builder value go out of scope without a boolean operation
discard(b) ==
    /\ NoneRunning
    /\ pc[b] = "idle"
    /\ self[b] # Null
    /\ calls' = calls \o Drop(self[b])
    /\ self' = [self EXCEPT ![b] = Null]
    /\ pc' = [pc EXCEPT ![b] = "dropped"]
    /\ UNCHANGED <<clipper, arg, out, ret, held, edits, query, api, input,
                   nextId>>

(***************************************************************************)
(* The engine's answers: the return value of an execute primitive and what *)
(* it writes into the output buffers.                                      *)
(***************************************************************************)
EngineReturns == {0, 1, 2}

EnginePaths == { <<>>, << << <<0, 0>>, <<7, 0>>, <<0, 9>> >> >> }

\* what a failed execute leaves in its output buffers
Partial == << << <<6, 6>> >> >>

ClipperError == {"FailedBooleanOperation"}

Err(e) == [tag |-> "Err", error |-> e]

\* BooleanResult::new
BooleanResult(closed, open) == [tag |-> "Ok", closed |-> closed, open |-> open]

CanExecute_AnyState(b) ==
    /\ NoneRunning
    /\ pc[b] = "idle"
    /\ self[b] # Null

\* the boolean operations are methods of Clipper<WithClips, P> only
CanExecute(b) ==
    /\ NoneRunning
    /\ pc[b] = "idle"
    /\ self[b] # Null
    /\ self[b]._state = "WithClips"

\* boolean_operation, lines 329-330: the two output buffers
boolean_operation(b, clip_type, fill_rule) ==
    /\ CanExecute(b)
    /\ calls' = calls \o << Call("to_clipperpaths64", Ptr(nextId), << <<>> >>),
                            Call("to_clipperpaths64", Ptr(nextId + 1), << <<>> >>) >>
    /\ arg' = [arg EXCEPT ![b] = [clip_type |-> clip_type, fill_rule |-> fill_rule,
                                  closed_path |-> Ptr(nextId),
                                  open_path |-> Ptr(nextId + 1)]]
    /\ nextId' = nextId + 2
    /\ pc' = [pc EXCEPT ![b] = "bo_333"]
    /\ UNCHANGED <<self, clipper, out, ret, held, edits, query, input>>

\* lines 333-339: clipper_clipper64_execute
boolean_operation_333(b, success, closed, open) ==
    /\ pc[b] = "bo_333"
    /\ calls' = calls \o << Call("clipper_clipper64_execute", self[b].ptr,
                                 <<ClipType_into(arg[b].clip_type),
                                   FillRule_into(arg[b].fill_rule),
                                   arg[b].closed_path, arg[b].open_path>>) >>
    /\ out' = [out EXCEPT ![b] = [success |-> success, closed |-> closed,
                                  open |-> open]]
    /\ pc' = [pc EXCEPT ![b] = "bo_341"]
    /\ UNCHANGED <<self, clipper, arg, ret, held, edits, query, api, input,
                   nextId>>

FailedEq0(success) == success = 0

\* the test of lines 341 and 417
Failed(success) == success # 1

boolean_operation_341_retry(b) ==
    /\ pc[b] = "bo_341"
    /\ Failed(out[b].success)
    /\ calls' = calls \o << Call("clipper_delete_paths64", arg[b].closed_path, <<>>),
                            Call("clipper_delete_paths64", arg[b].open_path, <<>>) >>
    /\ ret' = [ret EXCEPT ![b] = Err("FailedBooleanOperation")]
    /\ pc' = [pc EXCEPT ![b] = "idle"]
    /\ UNCHANGED <<self, clipper, arg, out, held, edits, query, api, input,
                   nextId>>

\* lines 341-345: the early return; self goes out of scope
boolean_operation_341(b) ==
    /\ pc[b] = "bo_341"
    /\ Failed(out[b].success)
    /\ calls' = calls \o << Call("clipper_delete_paths64", arg[b].closed_path, <<>>),
                            Call("clipper_delete_paths64", arg[b].open_path, <<>>) >>
                      \o Drop(self[b])
    /\ ret' = [ret EXCEPT ![b] = Err("FailedBooleanOperation")]
    /\ self' = [self EXCEPT ![b] = Null]
    /\ pc' = [pc EXCEPT ![b] = "returned"]
    /\ UNCHANGED <<clipper, arg, out, held, edits, query, api, input, nextId>>

boolean_operation_347_late_read(b) ==
    /\ pc[b] = "bo_341"
    /\ ~Failed(out[b].success)
    /\ calls' = calls \o << Call("from_clipperpaths64", arg[b].closed_path, <<>>),
                            Call("clipper_delete_paths64", arg[b].closed_path, <<>>),
                            Call("clipper_delete_paths64", arg[b].open_path, <<>>),
                            Call("from_clipperpaths64", arg[b].open_path, <<>>) >>
    /\ ret' = [ret EXCEPT ![b] = BooleanResult(from_clipperpaths64(out[b].closed),
                                               from_clipperpaths64(out[b].open))]
    /\ pc' = [pc EXCEPT ![b] = "bo_355"]
    /\ UNCHANGED <<self, clipper, arg, out, held, edits, query, api, input,
                   nextId>>

\* lines 347-352: read both buffers, release them, build the result
boolean_operation_347(b) ==
    /\ pc[b] = "bo_341"
    /\ ~Failed(out[b].success)
    /\ calls' = calls \o << Call("from_clipperpaths64", arg[b].closed_path, <<>>),
                            Call("from_clipperpaths64", arg[b].open_path, <<>>),
                            Call("clipper_delete_paths64", arg[b].closed_path, <<>>),
                            Call("clipper_delete_paths64", arg[b].open_path, <<>>) >>
    /\ ret' = [ret EXCEPT ![b] = BooleanResult(from_clipperpaths64(out[b].closed),
                                               from_clipperpaths64(out[b].open))]
    /\ pc' = [pc EXCEPT ![b] = "bo_355"]
    /\ UNCHANGED <<self, clipper, arg, out, held, edits, query, api, input,
                   nextId>>

\* lines 355-357: drop(self); result
boolean_operation_355(b) ==
    /\ pc[b] = "bo_355"
    /\ calls' = calls \o Drop(self[b])
    /\ self' = [self EXCEPT ![b] = Null]
    /\ pc' = [pc EXCEPT ![b] = "returned"]
    /\ UNCHANGED <<clipper, arg, out, ret, held, edits, query, api, input,
                   nextId>>

\* Clipper<WithClips>::union
union(b, fill_rule) ==
    /\ boolean_operation(b, "Union", fill_rule)
    /\ api' = Invoked(b, "union", <<fill_rule>>)

\* Clipper<WithClips>::difference
difference(b, fill_rule) ==
    /\ boolean_operation(b, "Difference", fill_rule)
    /\ api' = Invoked(b, "difference", <<fill_rule>>)

intersect_as_difference(b, fill_rule) ==
    /\ boolean_operation(b, "Difference", fill_rule)
    /\ api' = Invoked(b, "intersect", <<fill_rule>>)

\* Clipper<WithClips>::intersect
intersect(b, fill_rule) ==
    /\ boolean_operation(b, "Intersection", fill_rule)
    /\ api' = Invoked(b, "intersect", <<fill_rule>>)

\* Clipper<WithClips>::xor
xor(b, fill_rule) ==
    /\ boolean_operation(b, "Xor", fill_rule)
    /\ api' = Invoked(b, "xor", <<fill_rule>>)

(***************************************************************************)
(* The engine's native tree: node 1 is the root container, every other     *)
(* node i has a parent below i and children in increasing order.           *)
(***************************************************************************)
RECURSIVE SortedSeq(_)
SortedSeq(S) ==
    IF S = {} THEN <<>>
    ELSE LET m == CHOOSE x \in S : \A y \in S : x <= y
         IN  <<m>> \o SortedSeq(S \ {m})

\* the contour of engine node i; the root container has none
Polygon64(i) ==
    IF i = 1 THEN <<>> ELSE << <<0, 0>>, <<10 * i, 0>>, <<0, 10 * i + 1>> >>

EngineTree(k, parent, hole) ==
    [i \in 1..(k + 1) |->
        [is_hole |-> hole[i],
         polygon |-> Polygon64(i),
         children |-> SortedSeq({j \in 2..(k + 1) : parent[j] = i})]]

\* a hole is a child of a solid node or of the root, as the engine guarantees
EngineTreesOfSize(k) ==
    { EngineTree(k, parent, hole) :
        <<parent, hole>> \in
            { ph \in [2..(k + 1) -> 1..(k + 1)] \X [1..(k + 1) -> BOOLEAN] :
                /\ ~ph[2][1]
                /\ \A i \in 2..(k + 1) :
                      /\ ph[1][i] < i
                      /\ ph[2][i] => ~ph[2][ph[1][i]] } }

EngineTrees(max) == UNION { EngineTreesOfSize(k) : k \in 0..max }

(***************************************************************************)
(* PolyTree                                                                *)
(***************************************************************************)
PolyTree(children, is_hole, polygon) ==
    [children |-> children, is_hole |-> is_hole, polygon |-> polygon]

RECURSIVE from_ptr(_, _, _, _)
RECURSIVE from_ptr_children(_, _, _, _, _)

from_ptr_flipped(t, tree_ptr, n, id) ==
    LET ptr == NodePtr(tree_ptr, n)
        polygon_ptr == Ptr(id)
        head == << Call("clipper_polytree64_is_hole", ptr, <<>>),
                   Call("clipper_polytree64_polygon", polygon_ptr, <<ptr>>),
                   Call("Path_from_clipperpath64", polygon_ptr, <<>>),
                   Call("clipper_delete_path64", polygon_ptr, <<>>),
                   Call("clipper_polytree64_count", ptr, <<>>) >>
        kids == from_ptr_children(t, tree_ptr, n, 0, id + 1)
    IN  [node |-> PolyTree(kids.nodes, ~t[n].is_hole,
                           Path_from_clipperpath64(t[n].polygon)),
         log |-> head \o kids.log,
         next |-> kids.next]

\* PolyTree::from_ptr on node n of engine tree t at tree_ptr; id is the next
\* fresh allocation id.  The value is the owned node, the primitives invoked
\* and the next fresh id.
from_ptr(t, tree_ptr, n, id) ==
    LET ptr == NodePtr(tree_ptr, n)
        polygon_ptr == Ptr(id)
        head == << Call("clipper_polytree64_is_hole", ptr, <<>>),
                   Call("clipper_polytree64_polygon", polygon_ptr, <<ptr>>),
                   Call("Path_from_clipperpath64", polygon_ptr, <<>>),
                   Call("clipper_delete_path64", polygon_ptr, <<>>),
                   Call("clipper_polytree64_count", ptr, <<>>) >>
        kids == from_ptr_children(t, tree_ptr, n, 0, id + 1)
    IN  [node |-> PolyTree(kids.nodes, t[n].is_hole,
                           Path_from_clipperpath64(t[n].polygon)),
         log |-> head \o kids.log,
         next |-> kids.next]

from_ptr_children_short(t, tree_ptr, n, i, id) ==
    IF i + 1 >= Len(t[n].children)
    THEN [nodes |-> <<>>, log |-> <<>>, next |-> id]
    ELSE LET child == from_ptr(t, tree_ptr, t[n].children[i + 1], id)
             rest == from_ptr_children(t, tree_ptr, n, i + 1, child.next)
         IN  [nodes |-> <<child.node>> \o rest.nodes,
              log |-> << Call("clipper_polytree64_get_child",
                              NodePtr(tree_ptr, n), <<i>>) >>
                      \o child.log \o rest.log,
              next |-> rest.next]

from_ptr_children_rev(t, tree_ptr, n, i, id) ==
    IF i >= Len(t[n].children)
    THEN [nodes |-> <<>>, log |-> <<>>, next |-> id]
    ELSE LET child == from_ptr(t, tree_ptr, t[n].children[i + 1], id)
             rest == from_ptr_children(t, tree_ptr, n, i + 1, child.next)
         IN  [nodes |-> rest.nodes \o <<child.node>>,
              log |-> << Call("clipper_polytree64_get_child",
                              NodePtr(tree_ptr, n), <<i>>) >>
                      \o child.log \o rest.log,
              next |-> rest.next]

\* the closure of lines 476-482 for the indices i..count-1
from_ptr_children(t, tree_ptr, n, i, id) ==
    IF i >= Len(t[n].children)
    THEN [nodes |-> <<>>, log |-> <<>>, next |-> id]
    ELSE LET child == from_ptr(t, tree_ptr, t[n].children[i + 1], id)
             rest == from_ptr_children(t, tree_ptr, n, i + 1, child.next)
         IN  [nodes |-> <<child.node>> \o rest.nodes,
              log |-> << Call("clipper_polytree64_get_child",
                              NodePtr(tree_ptr, n), <<i>>) >>
                      \o child.log \o rest.log,
              next |-> rest.next]

\* BooleanTreeResult::new
BooleanTreeResult(tree, open) == [tag |-> "OkTree", tree |-> tree, open |-> open]

\* boolean_operation_tree, lines 402-407: the tree and the open output buffer
boolean_operation_tree(b, clip_type, fill_rule) ==
    /\ CanExecute(b)
    /\ calls' = calls \o << Call("clipper_polytree64", NodePtr(Ptr(nextId), 1), <<>>),
                            Call("clipper_paths64", Ptr(nextId + 1), <<>>) >>
    /\ arg' = [arg EXCEPT ![b] = [clip_type |-> clip_type, fill_rule |-> fill_rule,
                                  tree_ptr |-> NodePtr(Ptr(nextId), 1),
                                  open_path_ptr |-> Ptr(nextId + 1)]]
    /\ nextId' = nextId + 2
    /\ pc' = [pc EXCEPT ![b] = "bt_409"]
    /\ UNCHANGED <<self, clipper, out, ret, held, edits, query, input>>

\* lines 409-415: clipper_clipper64_execute_tree_with_open
boolean_operation_tree_409(b, success, tree, open) ==
    /\ pc[b] = "bt_409"
    /\ calls' = calls \o << Call("clipper_clipper64_execute_tree_with_open",
                                 self[b].ptr,
                                 <<ClipType_into(arg[b].clip_type),
                                   FillRule_into(arg[b].fill_rule),
                                   arg[b].tree_ptr, arg[b].open_path_ptr>>) >>
    /\ out' = [out EXCEPT ![b] = [success |-> success, tree |-> tree,
                                  open |-> open]]
    /\ pc' = [pc EXCEPT ![b] = "bt_417"]
    /\ UNCHANGED <<self, clipper, arg, ret, held, edits, query, api, input,
                   nextId>>

boolean_operation_tree_417_leak(b) ==
    /\ pc[b] = "bt_417"
    /\ Failed(out[b].success)
    /\ calls' = calls \o << Call("clipper_delete_polytree64", arg[b].tree_ptr, <<>>) >>
                      \o Drop(self[b])
    /\ ret' = [ret EXCEPT ![b] = Err("FailedBooleanOperation")]
    /\ self' = [self EXCEPT ![b] = Null]
    /\ pc' = [pc EXCEPT ![b] = "returned"]
    /\ UNCHANGED <<clipper, arg, out, held, edits, query, api, input, nextId>>

\* lines 417-421: the early return; self goes out of scope
boolean_operation_tree_417(b) ==
    /\ pc[b] = "bt_417"
    /\ Failed(out[b].success)
    /\ calls' = calls \o << Call("clipper_delete_polytree64", arg[b].tree_ptr, <<>>),
                            Call("clipper_delete_paths64", arg[b].open_path_ptr, <<>>) >>
                      \o Drop(self[b])
    /\ ret' = [ret EXCEPT ![b] = Err("FailedBooleanOperation")]
    /\ self' = [self EXCEPT ![b] = Null]
    /\ pc' = [pc EXCEPT ![b] = "returned"]
    /\ UNCHANGED <<clipper, arg, out, held, edits, query, api, input, nextId>>

boolean_operation_tree_424_early(b) ==
    /\ pc[b] = "bt_417"
    /\ ~Failed(out[b].success)
    /\ LET poly_tree == from_ptr(out[b].tree, arg[b].tree_ptr, 1, nextId)
       IN  /\ calls' = calls
                  \o << Call("clipper_delete_polytree64", arg[b].tree_ptr, <<>>) >>
                  \o poly_tree.log
                  \o << Call("from_clipperpaths64", arg[b].open_path_ptr, <<>>),
                        Call("clipper_delete_paths64", arg[b].open_path_ptr, <<>>) >>
           /\ nextId' = poly_tree.next
           /\ ret' = [ret EXCEPT ![b] =
                         BooleanTreeResult(poly_tree.node,
                                           from_clipperpaths64(out[b].open))]
    /\ pc' = [pc EXCEPT ![b] = "bt_434"]
    /\ UNCHANGED <<self, clipper, arg, out, held, edits, query, api, input>>

\* lines 424-432: reconstruct the tree, release it, read and release the open
\* paths, build the result
boolean_operation_tree_424(b) ==
    /\ pc[b] = "bt_417"
    /\ ~Failed(out[b].success)
    /\ LET poly_tree == from_ptr(out[b].tree, arg[b].tree_ptr, 1, nextId)
       IN  /\ calls' = calls \o poly_tree.log
                  \o << Call("clipper_delete_polytree64", arg[b].tree_ptr, <<>>),
                        Call("from_clipperpaths64", arg[b].open_path_ptr, <<>>),
                        Call("clipper_delete_paths64", arg[b].open_path_ptr, <<>>) >>
           /\ nextId' = poly_tree.next
           /\ ret' = [ret EXCEPT ![b] =
                         BooleanTreeResult(poly_tree.node,
                                           from_clipperpaths64(out[b].open))]
    /\ pc' = [pc EXCEPT ![b] = "bt_434"]
    /\ UNCHANGED <<self, clipper, arg, out, held, edits, query, api, input>>

boolean_operation_tree_434_forget(b) ==
    /\ pc[b] = "bt_434"
    /\ self' = [self EXCEPT ![b] = Null]
    /\ pc' = [pc EXCEPT ![b] = "returned"]
    /\ UNCHANGED <<clipper, arg, out, ret, held, edits, query, api, input,
                   calls, nextId>>

\* line 434: the function returns; self goes out of scope
boolean_operation_tree_434(b) ==
    /\ pc[b] = "bt_434"
    /\ calls' = calls \o Drop(self[b])
    /\ self' = [self EXCEPT ![b] = Null]
    /\ pc' = [pc EXCEPT ![b] = "returned"]
    /\ UNCHANGED <<clipper, arg, out, ret, held, edits, query, api, input,
                   nextId>>

\* Clipper<WithClips>::union_tree
union_tree(b, fill_rule) ==
    /\ boolean_operation_tree(b, "Union", fill_rule)
    /\ api' = Invoked(b, "union_tree", <<fill_rule>>)

\* Clipper<WithClips>::difference_tree
difference_tree(b, fill_rule) ==
    /\ boolean_operation_tree(b, "Difference", fill_rule)
    /\ api' = Invoked(b, "difference_tree", <<fill_rule>>)

\* Clipper<WithClips>::intersect_tree
intersect_tree(b, fill_rule) ==
    /\ boolean_operation_tree(b, "Intersection", fill_rule)
    /\ api' = Invoked(b, "intersect_tree", <<fill_rule>>)

\* Clipper<WithClips>::xor_tree
xor_tree(b, fill_rule) ==
    /\ boolean_operation_tree(b, "Xor", fill_rule)
    /\ api' = Invoked(b, "xor_tree", <<fill_rule>>)

\* a partly written tree, left behind by a failed execute
PartialTree == EngineTree(1, [i \in {2} |-> 1], [i \in 1..2 |-> FALSE])

Builder(b) ==
    \/ new(b)
    \/ \E g \in Geoms : NoSubjects_add_subject(b, g)
    \/ NoSubjects_add_subject_108(b)
    \/ NoSubjects_add_subject_115(b)
    \/ NoSubjects_add_subject_117(b)
    \/ \E g \in Geoms : NoSubjects_add_open_subject(b, g)
    \/ NoSubjects_add_open_subject_134(b)
    \/ NoSubjects_add_open_subject_141(b)
    \/ NoSubjects_add_open_subject_143(b)
    \/ \E g \in Geoms : WithSubjects_add_subject(b, g)
    \/ \E g \in Geoms : WithSubjects_add_open_subject(b, g)
    \/ \E g \in Geoms : WithSubjects_add_clip(b, g)
    \/ WithSubjects_add_clip_207(b)
    \/ WithSubjects_add_clip_214(b)
    \/ WithSubjects_add_clip_216(b)
    \/ \E g \in Geoms : WithClips_add_clip(b, g)
    \/ discard(b)

Flat(b) ==
    \/ \E fill_rule \in FillRules : union(b, fill_rule)
    \/ \E fill_rule \in FillRules : difference(b, fill_rule)
    \/ \E fill_rule \in FillRules : intersect(b, fill_rule)
    \/ \E fill_rule \in FillRules : xor(b, fill_rule)
    \/ \E closed \in EnginePaths, open \in EnginePaths :
           boolean_operation_333(b, 1, closed, open)
    \/ \E success \in EngineReturns \ {1} :
           boolean_operation_333(b, success, Partial, Partial)
    \/ boolean_operation_341(b)
    \/ boolean_operation_347(b)
    \/ boolean_operation_355(b)

Tree(b, trees) ==
    \/ \E fill_rule \in FillRules : union_tree(b, fill_rule)
    \/ \E fill_rule \in FillRules : difference_tree(b, fill_rule)
    \/ \E fill_rule \in FillRules : intersect_tree(b, fill_rule)
    \/ \E fill_rule \in FillRules : xor_tree(b, fill_rule)
    \/ \E tree \in trees, open \in EnginePaths :
           boolean_operation_tree_409(b, 1, tree, open)
    \/ \E success \in EngineReturns \ {1} :
           boolean_operation_tree_409(b, success, PartialTree, Partial)
    \/ boolean_operation_tree_417(b)
    \/ boolean_operation_tree_424(b)
    \/ boolean_operation_tree_434(b)

Next == \E b \in OneBuilder : Builder(b) \/ Flat(b) \/ Tree(b, EngineTrees(1))

Spec == Init /\ [][Next]_vars

(***************************************************************************)
(* The builder with every sequence of add_* calls, ended by a flat or a    *)
(* tree-producing union: every statement of the add_* methods and of both  *)
(* boolean_operation helpers, on the success and on the failure path.      *)
(***************************************************************************)
NextScope ==
    \E b \in OneBuilder :
        \/ Builder(b)
        \/ union(b, "NonZero")
        \/ \E closed \in EnginePaths, open \in EnginePaths :
               boolean_operation_333(b, 1, closed, open)
        \/ \E success \in EngineReturns \ {1} :
               boolean_operation_333(b, success, Partial, Partial)
        \/ boolean_operation_341(b)
        \/ boolean_operation_347(b)
        \/ boolean_operation_355(b)
        \/ union_tree(b, "NonZero")
        \/ \E tree \in EngineTrees(1), open \in EnginePaths :
               boolean_operation_tree_409(b, 1, tree, open)
        \/ \E success \in EngineReturns \ {1} :
               boolean_operation_tree_409(b, success, PartialTree, Partial)
        \/ boolean_operation_tree_417(b)
        \/ boolean_operation_tree_424(b)
        \/ boolean_operation_tree_434(b)

SpecScope == Init /\ [][NextScope]_vars

(***************************************************************************)
(* The caller's use of a returned tree.  A node is reached from the root   *)
(* by get_child_mut, index after index; children_mut hands out the node's  *)
(* Vec, from which the caller removes a node or onto which it pushes one.  *)
(***************************************************************************)
None == Null

\* PolyTree::get_child_mut: self.children.get_mut(index)
get_child_mut(node, index) ==
    IF index < Len(node.children) THEN node.children[index + 1] ELSE None

\* PolyTree::children_mut
children_mut(node) == node.children

\* PolyTree::child_count
child_count(node) == Len(node.children)

\* PolyTree::get_child: self.children.get(index)
get_child(node, index) ==
    IF index < Len(node.children) THEN node.children[index + 1] ELSE None

\* PolyTree::is_hole
is_hole(node) == node.is_hole

\* PolyTree::polygon
polygon(node) == node.polygon

\* PolyTree::children
children(node) == node.children

RECURSIVE collect_paths(_, _)
RECURSIVE collect_paths_children(_, _, _)

collect_paths_post(node, paths) ==
    Append(collect_paths_children(node, 1, paths), node.polygon)

\* PolyTree::collect_paths: push the node's polygon, then every child's paths;
\* the value is the Vec behind &mut paths afterwards
collect_paths(node, paths) ==
    collect_paths_children(node, 1, Append(paths, node.polygon))

\* for child in &self.children { child.collect_paths(paths) }, from child i on
collect_paths_children(node, i, paths) ==
    IF i > Len(node.children) THEN paths
    ELSE collect_paths_children(node, i + 1,
                                collect_paths(node.children[i], paths))

\* Path::signed_area: the shoelace sum over the contour's points, halved; the
\* points are n/Multiplier, so the value is <<numerator, denominator>>
RECURSIVE shoelace(_, _)
shoelace(path, i) ==
    IF i > Len(path) THEN 0
    ELSE LET p == path[i]
             q == path[(i % Len(path)) + 1]
         IN  p[1][1] * q[2][1] - q[1][1] * p[2][1] + shoelace(path, i + 1)

signed_area(path) == <<shoelace(path, 1), 2 * Multiplier * Multiplier>>

\* PolyTree::area
area(node) == signed_area(node.polygon)

to_paths_skip_empty(node) ==
    SelectSeq(collect_paths(node, <<>>), LAMBDA path : path # <<>>)

\* PolyTree::to_paths
to_paths(node) == collect_paths(node, <<>>)

RECURSIVE collect_hole_paths(_, _)
RECURSIVE collect_hole_paths_children(_, _, _)

collect_hole_paths_all(node, paths) ==
    collect_hole_paths_children(node, 1, Append(paths, node.polygon))

\* PolyTree::collect_hole_paths
collect_hole_paths(node, paths) ==
    collect_hole_paths_children(node, 1,
        IF node.is_hole THEN Append(paths, node.polygon) ELSE paths)

collect_hole_paths_children(node, i, paths) ==
    IF i > Len(node.children) THEN paths
    ELSE collect_hole_paths_children(node, i + 1,
                                     collect_hole_paths(node.children[i], paths))

\* PolyTree::get_hole_paths
get_hole_paths(node) == collect_hole_paths(node, <<>>)

RECURSIVE NodeAt(_, _)
NodeAt(node, path) ==
    IF path = <<>> THEN node
    ELSE LET child == get_child_mut(node, Head(path))
         IN  IF child = None THEN None ELSE NodeAt(child, Tail(path))

\* the tree after the Vec behind children_mut of the node at path became kids
RECURSIVE WithChildren(_, _, _)
WithChildren(node, path, kids) ==
    IF path = <<>> THEN [node EXCEPT !.children = kids]
    ELSE [node EXCEPT !.children[Head(path) + 1] =
              WithChildren(children_mut(node)[Head(path) + 1], Tail(path), kids)]

\* Vec::remove(index)
Removed(v, index) ==
    [i \in 1..(Len(v) - 1) |-> IF i <= index THEN v[i] ELSE v[i + 1]]

\* the index sequences that lead from node to a node below it (or to itself)
RECURSIVE ChildPaths(_)
ChildPaths(node) ==
    {<<>>} \cup UNION { { <<i>> \o p : p \in ChildPaths(get_child_mut(node, i)) } :
                           i \in 0..(Len(node.children) - 1) }

HasTree(b) == pc[b] = "returned" /\ ret[b].tag = "OkTree"

\* let node = tree.get_child_mut(..)...; held = node.children_mut().remove(index)
\* (the &mut borrow ends every reference an earlier query returned)
children_mut_remove(b) ==
    /\ NoneRunning
    /\ HasTree(b)
    /\ held[b] = Null
    /\ edits[b].removed + edits[b].pushed < MaxEdits
    /\ \E path \in ChildPaths(ret[b].tree) :
         LET node == NodeAt(ret[b].tree, path)
         IN  \E index \in 0..(Len(children_mut(node)) - 1) :
           /\ held' = [held EXCEPT ![b] = children_mut(node)[index + 1]]
           /\ ret' = [ret EXCEPT ![b].tree =
                         WithChildren(@, path, Removed(children_mut(node), index))]
    /\ edits' = [edits EXCEPT ![b].removed = @ + 1]
    /\ query' = [query EXCEPT ![b] = Null]
    /\ UNCHANGED <<self, clipper, pc, arg, out, api, input, calls, nextId>>

\* tree.get_child_mut(..)...children_mut().push(held)
children_mut_push(b) ==
    /\ NoneRunning
    /\ HasTree(b)
    /\ held[b] # Null
    /\ edits[b].removed + edits[b].pushed < MaxEdits
    /\ \E path \in ChildPaths(ret[b].tree) :
         LET node == NodeAt(ret[b].tree, path)
         IN  ret' = [ret EXCEPT ![b].tree =
                         WithChildren(@, path, Append(children_mut(node), held[b]))]
    /\ held' = [held EXCEPT ![b] = Null]
    /\ edits' = [edits EXCEPT ![b].pushed = @ + 1]
    /\ query' = [query EXCEPT ![b] = Null]
    /\ UNCHANGED <<self, clipper, pc, arg, out, api, input, calls, nextId>>

\* a &self method of PolyTree called on the node at path of b's returned tree:
\* it reads the owned node and hands its value to the caller
Query(b, method, path, result) ==
    /\ NoneRunning
    /\ HasTree(b)
    /\ query' = [query EXCEPT ![b] =
                     [method |-> method, path |-> path, result |-> result]]
    /\ UNCHANGED <<self, clipper, pc, arg, out, ret, held, edits, api, input,
                   calls, nextId>>

query_child_count(b) ==
    /\ HasTree(b)
    /\ \E path \in ChildPaths(ret[b].tree) :
          Query(b, "child_count", path, child_count(NodeAt(ret[b].tree, path)))

query_get_child(b) ==
    /\ HasTree(b)
    /\ \E path \in ChildPaths(ret[b].tree) :
          \E index \in 0..child_count(NodeAt(ret[b].tree, path)) :
              Query(b, "get_child", path \o <<index>>,
                    get_child(NodeAt(ret[b].tree, path), index))

query_is_hole(b) ==
    /\ HasTree(b)
    /\ \E path \in ChildPaths(ret[b].tree) :
          Query(b, "is_hole", path, is_hole(NodeAt(ret[b].tree, path)))

query_polygon(b) ==
    /\ HasTree(b)
    /\ \E path \in ChildPaths(ret[b].tree) :
          Query(b, "polygon", path, polygon(NodeAt(ret[b].tree, path)))

query_area_lazy(b) ==
    /\ NoneRunning
    /\ HasTree(b)
    /\ \E path \in ChildPaths(ret[b].tree) :
          /\ query' = [query EXCEPT ![b] =
                           [method |-> "area", path |-> path,
                            result |-> area(NodeAt(ret[b].tree, path))]]
          /\ calls' = calls \o << Call("clipper_polytree64_area",
                                       arg[b].tree_ptr, <<path>>) >>
    /\ UNCHANGED <<self, clipper, pc, arg, out, ret, held, edits, api, input,
                   nextId>>

query_area(b) ==
    /\ HasTree(b)
    /\ \E path \in ChildPaths(ret[b].tree) :
          Query(b, "area", path, area(NodeAt(ret[b].tree, path)))

query_to_paths(b) ==
    /\ HasTree(b)
    /\ \E path \in ChildPaths(ret[b].tree) :
          Query(b, "to_paths", path, to_paths(NodeAt(ret[b].tree, path)))

query_get_hole_paths(b) ==
    /\ HasTree(b)
    /\ \E path \in ChildPaths(ret[b].tree) :
          Query(b, "get_hole_paths", path, get_hole_paths(NodeAt(ret[b].tree, path)))

query_children(b) ==
    /\ HasTree(b)
    /\ \E path \in ChildPaths(ret[b].tree) :
          Query(b, "children", path, children(NodeAt(ret[b].tree, path)))

(***************************************************************************)
(* The tree-producing run: one subject, one clip, union_tree, and then the *)
(* caller's edits of the returned tree, over every engine tree.            *)
(***************************************************************************)
TreeRun(b) ==
    \/ new(b)
    \/ NoSubjects_add_subject(b, Geom(1))
    \/ NoSubjects_add_subject_108(b)
    \/ NoSubjects_add_subject_115(b)
    \/ NoSubjects_add_subject_117(b)
    \/ WithSubjects_add_clip(b, Geom(1))
    \/ WithSubjects_add_clip_207(b)
    \/ WithSubjects_add_clip_214(b)
    \/ WithSubjects_add_clip_216(b)
    \/ union_tree(b, "NonZero")
    \/ \E tree \in EngineTrees(MaxTreeNodes) :
           boolean_operation_tree_409(b, 1, tree, <<>>)
    \/ boolean_operation_tree_424(b)
    \/ boolean_operation_tree_434(b)

NextTree ==
    \E b \in OneBuilder :
        \/ TreeRun(b)
        \/ children_mut_remove(b)
        \/ children_mut_push(b)

SpecTree == Init /\ [][NextTree]_vars

(***************************************************************************)
(* The caller's use of a result: the run above or a flat union, and then   *)
(* the queries of the returned tree.                                       *)
(***************************************************************************)
NextResult ==
    \E b \in OneBuilder :
           \/ TreeRun(b)
           \/ union(b, "NonZero")
           \/ \E closed \in EnginePaths, open \in EnginePaths :
                  boolean_operation_333(b, 1, closed, open)
           \/ boolean_operation_347(b)
           \/ boolean_operation_355(b)
           \/ query_child_count(b)
           \/ query_get_child(b)
           \/ query_is_hole(b)
           \/ query_polygon(b)
           \/ query_area(b)
           \/ query_to_paths(b)
           \/ query_get_hole_paths(b)
           \/ query_children(b)

SpecResult == Init /\ [][NextResult]_vars

(***************************************************************************)
(* operations::union, the free function:                                   *)
(*     Clipper::new().add_subject(subject).add_clip(clip).union(fill_rule) *)
(* Its builder is a temporary, builder 1; the value of the chain is the    *)
(* function's value.                                                       *)
(***************************************************************************)
\* the call union(subject, clip, fill_rule): the arguments are bound
operations_union(subject, clip, fill_rule) ==
    /\ input = Null
    /\ \A b \in BuilderIds : pc[b] = "unborn"
    /\ input' = [subject |-> subject, clip |-> clip, fill_rule |-> fill_rule]
    /\ UNCHANGED <<self, clipper, pc, arg, out, ret, held, edits, query, api,
                   calls, nextId>>

\* line 29: Clipper::new()
operations_union_29(b) ==
    /\ input # Null
    /\ new(b)

\* line 30: .add_subject(subject)
operations_union_30(b) ==
    /\ input # Null
    /\ NoSubjects_add_subject(b, input.subject)

operations_union_31_subject(b) ==
    /\ input # Null
    /\ WithSubjects_add_clip(b, input.subject)

\* line 31: .add_clip(clip)
operations_union_31(b) ==
    /\ input # Null
    /\ WithSubjects_add_clip(b, input.clip)

\* line 32: .union(fill_rule)
operations_union_32(b) ==
    /\ input # Null
    /\ union(b, input.fill_rule)

NextUnion ==
    \/ \E subject \in Geoms, clip \in Geoms, fill_rule \in FillRules :
           operations_union(subject, clip, fill_rule)
    \/ \E b \in OneBuilder :
           \/ operations_union_29(b)
           \/ operations_union_30(b)
           \/ NoSubjects_add_subject_108(b)
           \/ NoSubjects_add_subject_115(b)
           \/ NoSubjects_add_subject_117(b)
           \/ operations_union_31(b)
           \/ WithSubjects_add_clip_207(b)
           \/ WithSubjects_add_clip_214(b)
           \/ WithSubjects_add_clip_216(b)
           \/ operations_union_32(b)
           \/ \E closed \in EnginePaths, open \in EnginePaths :
                  boolean_operation_333(b, 1, closed, open)
           \/ \E success \in EngineReturns \ {1} :
                  boolean_operation_333(b, success, Partial, Partial)
           \/ boolean_operation_341(b)
           \/ boolean_operation_347(b)
           \/ boolean_operation_355(b)

SpecUnion == Init /\ [][NextUnion]_vars

(***************************************************************************)
(* Two builders, used by one caller in any order of their method calls.    *)
(* The engine is deterministic: what an execute call answers is a function *)
(* of what was registered on its handle, the clip type and the fill rule.  *)
(***************************************************************************)
\* what the engine was given for b's execute: the registrations on b's handle
\* in order, the primitive, the clip type and the fill rule
ExecuteInput(b, h) ==
    LET regs == SortedSeq(CallsOn(calls, RegisterFns, h))
        made(i) == CHOOSE k \in 1..Len(calls) :
                       /\ calls[k].f = "to_clipperpaths64"
                       /\ calls[k].ptr = calls[i].args[1]
    IN  << [k \in 1..Len(regs) |->
               <<calls[regs[k]].f, calls[made(regs[k])].args[1]>>],
           ClipType_into(arg[b].clip_type), FillRule_into(arg[b].fill_rule) >>

\* clipper_clipper64_execute of a deterministic engine: the answer other gave
\* for the same input is the answer b gets
engine_execute(b, other, success, closed, open) ==
    /\ pc[b] = "bo_333"
    /\ (/\ out[other] # Null
        /\ out[other].given = ExecuteInput(b, self[b].ptr))
          => /\ success = out[other].success
             /\ closed = out[other].closed
             /\ open = out[other].open
    /\ calls' = calls \o << Call("clipper_clipper64_execute", self[b].ptr,
                                 <<ClipType_into(arg[b].clip_type),
                                   FillRule_into(arg[b].fill_rule),
                                   arg[b].closed_path, arg[b].open_path>>) >>
    /\ out' = [out EXCEPT ![b] = [success |-> success, closed |-> closed,
                                  open |-> open,
                                  given |-> ExecuteInput(b, self[b].ptr)]]
    /\ pc' = [pc EXCEPT ![b] = "bo_341"]
    /\ UNCHANGED <<self, clipper, arg, ret, held, edits, query, api, input,
                   nextId>>

NextPair ==
    \E b \in BuilderIds :
        \/ new(b)
        \/ \E subject \in Geoms : NoSubjects_add_subject(b, subject)
        \/ NoSubjects_add_subject_108(b)
        \/ NoSubjects_add_subject_115(b)
        \/ NoSubjects_add_subject_117(b)
        \/ WithSubjects_add_clip(b, Geom(1))
        \/ WithSubjects_add_clip_207(b)
        \/ WithSubjects_add_clip_214(b)
        \/ WithSubjects_add_clip_216(b)
        \/ \E fill_rule \in FillRules : union(b, fill_rule)
        \/ \E other \in BuilderIds \ {b} :
               \/ \E closed \in EnginePaths : engine_execute(b, other, 1, closed, <<>>)
               \/ \E success \in EngineReturns \ {1} :
                      engine_execute(b, other, success, Partial, Partial)
        \/ boolean_operation_341(b)
        \/ boolean_operation_347(b)
        \/ boolean_operation_355(b)

SpecPair == Init /\ [][NextPair]_vars

(***************************************************************************)
(* Properties                                                              *)
(***************************************************************************)
SubjectFns == {"clipper_clipper64_add_subject",
               "clipper_clipper64_add_open_subject"}

\* the wrappers that exist for builder b
Live(b) == {w \in {self[b], clipper[b]} : w # Null}

\* the wrappers whose drop releases the handle
Responsible(b) == {w \in Live(b) : ~w.keep_ptr_on_drop}

\* the engine handles allocated so far
Handles == {calls[i].ptr : i \in {j \in 1..Len(calls) : calls[j].f = "clipper_clipper64"}}

Held(h) == \E b \in BuilderIds : \E w \in Live(b) : w.ptr = h

Releases(h) == CountCalls(calls, "clipper_delete_clipper64", h)

\* the typestate of builder b's value
TypeState(b) ==
    IF pc[b] = "unborn" THEN "unborn"
    ELSE IF clipper[b] # Null THEN clipper[b]._state
    ELSE IF self[b] # Null THEN self[b]._state
    ELSE "gone"

\* C1: an execute primitive is only ever invoked on a handle on which a subject
\* (closed or open) and a clip were registered before, and only by a builder
\* value in state WithClips
C1_ExecuteOnlyWithSubjectAndClip ==
    /\ \A i \in 1..Len(calls) :
          calls[i].f \in ExecuteFns =>
              /\ \E j \in 1..(i - 1) :
                    calls[j].f \in SubjectFns /\ calls[j].ptr = calls[i].ptr
              /\ \E j \in 1..(i - 1) :
                    /\ calls[j].f = "clipper_clipper64_add_clip"
                    /\ calls[j].ptr = calls[i].ptr
    /\ \A b \in BuilderIds :
          pc[b] \in {"bo_333", "bo_341", "bt_409", "bt_417"} =>
              self[b]._state = "WithClips"

C1_Witness ==
    \E i \in 1..Len(calls) : calls[i].f \in ExecuteFns

\* C2 as claimed: at every point at which a wrapper of the builder exists,
\* exactly one of them is responsible for releasing the handle
C2_ExactlyOneResponsible ==
    \A b \in BuilderIds :
        Live(b) # {} => Cardinality(Responsible(b)) = 1

InHandOver(b) == pc[b] \in {"ns_as_108", "ns_ao_134", "ws_ac_207"}

\* C2 as amended: never two responsible wrappers; exactly one except between
\* the statement that flags the old wrapper and the construction of the new one,
\* where there is none; and the handle is not released while a wrapper holds it
\* (the flagged old wrapper releases nothing when it is dropped)
C2_AtMostOneResponsible ==
    \A b \in BuilderIds :
        /\ Cardinality(Responsible(b)) <= 1
        /\ Live(b) # {} =>
              /\ InHandOver(b) <=> Responsible(b) = {}
              /\ \A w \in Live(b) : Releases(w.ptr) = 0

C2_Witness ==
    \E b \in BuilderIds :
        /\ self[b] # Null /\ clipper[b] # Null
        /\ self[b].keep_ptr_on_drop /\ ~clipper[b].keep_ptr_on_drop

\* C3: a builder discarded without a boolean operation, in whichever state and
\* after whichever add_* calls, has had its handle released exactly once, and no
\* handle is ever released twice
C3_DiscardReleasesOnce ==
    /\ \A h \in Handles : Releases(h) <= 1
    /\ \A b \in BuilderIds :
          pc[b] = "dropped" => \A h \in Handles : ~Held(h) => Releases(h) = 1

C3_Witness ==
    \E b \in BuilderIds :
        /\ pc[b] = "dropped"
        /\ \E h \in Handles : Cardinality(CallsOn(calls, RegisterFns, h)) >= 2

\* C4: when a boolean operation has returned, with Ok or with Err, the builder
\* value is gone and the handle it executed on was released exactly once
C4_OperationReleasesOnce ==
    \A b \in BuilderIds :
        pc[b] = "returned" =>
            /\ Live(b) = {}
            /\ \A i \in 1..Len(calls) :
                  calls[i].f \in ExecuteFns /\ ~Held(calls[i].ptr) =>
                      Releases(calls[i].ptr) = 1

C4_Witness ==
    \E b \in BuilderIds :
        pc[b] = "returned" /\ ret[b].tag = "Err" /\ "tree_ptr" \in DOMAIN arg[b]

\* the primitives that read what the engine wrote into an output buffer
ReadFns == {"from_clipperpaths64", "clipper_polytree64_is_hole",
            "clipper_polytree64_polygon", "clipper_polytree64_count",
            "clipper_polytree64_get_child"}

OutputBuffers(b) ==
    IF "tree_ptr" \in DOMAIN arg[b]
    THEN {arg[b].tree_ptr, arg[b].open_path_ptr}
    ELSE {arg[b].closed_path, arg[b].open_path}

\* C5: a boolean operation returns Err(FailedBooleanOperation) exactly when the
\* execute primitive returned something other than 1; the Err carries no
\* geometry and the output buffers have not been read
C5_ErrIffEngineFailed ==
    \A b \in BuilderIds :
        pc[b] = "returned" =>
            /\ ret[b].tag = "Err" <=> out[b].success # 1
            /\ ret[b].tag = "Err" =>
                  /\ ret[b] = [tag |-> "Err", error |-> "FailedBooleanOperation"]
                  /\ \A i \in 1..Len(calls) :
                        calls[i].f \in ReadFns =>
                            /\ calls[i].ptr \notin OutputBuffers(b)
                            /\ \A a \in 1..Len(calls[i].args) :
                                  calls[i].args[a] \notin OutputBuffers(b)
            /\ ret[b].tag # "Err" => ret[b].tag \in {"Ok", "OkTree"}

C5_Witness ==
    \E b \in BuilderIds :
        pc[b] = "returned" /\ ret[b].tag = "Err" /\ out[b].success = 2

\* C6: after an execute primitive was invoked on a handle, the only later
\* engine call on that handle is its release
C6_ExecuteIsLast ==
    \A i \in 1..Len(calls) :
        calls[i].f \in ExecuteFns =>
            \A j \in (i + 1)..Len(calls) :
                calls[j].ptr = calls[i].ptr =>
                    calls[j].f = "clipper_delete_clipper64"

C6_Witness ==
    \E i \in 1..Len(calls) :
        /\ calls[i].f \in ExecuteFns
        /\ \E j \in (i + 1)..Len(calls) :
              calls[j].ptr = calls[i].ptr /\ calls[j].f = "clipper_delete_clipper64"

TypeSteps == { <<"unborn", "NoSubjects">>,
               <<"NoSubjects", "WithSubjects">>,
               <<"WithSubjects", "WithClips">>,
               <<"NoSubjects", "gone">>,
               <<"WithSubjects", "gone">>,
               <<"WithClips", "gone">> }

\* the calls a step appends to the log
Appended == SubSeq(calls', Len(calls) + 1, Len(calls'))

\* C7: the builder's typestate only moves NoSubjects -> WithSubjects ->
\* WithClips (or is consumed); a subject or open subject is registered only by
\* a value that is then WithSubjects, a clip only by one that is then WithClips,
\* and an execute primitive is invoked only by a WithClips value
C7_TypestateMachine ==
    [][\A b \in BuilderIds :
          /\ TypeState(b)' # TypeState(b) =>
                <<TypeState(b), TypeState(b)'>> \in TypeSteps
          /\ \A i \in 1..Len(Appended) :
                (\E w \in Live(b) : w.ptr = Appended[i].ptr) =>
                    /\ Appended[i].f \in SubjectFns =>
                          /\ TypeState(b)' = "WithSubjects"
                          /\ TypeState(b) \in {"WithSubjects"}
                    /\ Appended[i].f = "clipper_clipper64_add_clip" =>
                          /\ TypeState(b)' = "WithClips"
                          /\ TypeState(b) \in {"WithClips"}
                    /\ Appended[i].f \in ExecuteFns =>
                          TypeState(b) = "WithClips"]_vars

C7_Witness ==
    \E b \in BuilderIds :
        /\ TypeState(b) = "WithClips"
        /\ pc[b] = "idle"
        /\ Cardinality(CallsOn(calls, {"clipper_clipper64_add_clip"}, self[b].ptr)) = 2

\* C8 as claimed: on a handle that reaches an execute, no closed subject is
\* registered after an open subject and no subject after a clip
C8_SubjectsOpenSubjectsClips ==
    \A e \in 1..Len(calls) :
        calls[e].f \in ExecuteFns =>
            \A i, j \in 1..Len(calls) :
                i < j /\ calls[i].ptr = calls[e].ptr /\ calls[j].ptr = calls[e].ptr =>
                    /\ ~ (/\ calls[i].f = "clipper_clipper64_add_open_subject"
                          /\ calls[j].f = "clipper_clipper64_add_subject")
                    /\ ~ (/\ calls[i].f = "clipper_clipper64_add_clip"
                          /\ calls[j].f \in SubjectFns)

\* C8 as amended: on every handle, no subject of either kind is registered
\* after a clip; closed and open subjects are registered in the caller's order
C8_NoSubjectAfterClip ==
    \A i, j \in 1..Len(calls) :
        i < j /\ calls[i].ptr = calls[j].ptr =>
            ~ (/\ calls[i].f = "clipper_clipper64_add_clip"
               /\ calls[j].f \in SubjectFns)

C8_Witness ==
    \E e, i, j, k \in 1..Len(calls) :
        /\ i < j /\ j < k /\ k < e
        /\ calls[e].f \in ExecuteFns
        /\ calls[i].f = "clipper_clipper64_add_open_subject"
        /\ calls[j].f = "clipper_clipper64_add_subject"
        /\ calls[k].f = "clipper_clipper64_add_clip"
        /\ {calls[i].ptr, calls[j].ptr, calls[k].ptr} = {calls[e].ptr}

RECURSIVE NodesOf(_)
NodesOf(node) ==
    {node} \cup UNION { NodesOf(node.children[i]) : i \in 1..Len(node.children) }

\* the owned node carries the hole flag and the contour of engine node i
Carries(node, t, i) ==
    /\ node.is_hole = t[i].is_hole
    /\ node.polygon = [k \in 1..Len(t[i].polygon) |->
                           << <<t[i].polygon[k][1], Multiplier>>,
                              <<t[i].polygon[k][2], Multiplier>> >>]

Pristine(b) == HasTree(b) /\ edits[b].removed = 0 /\ edits[b].pushed = 0

\* C9 as claimed: every node of the returned tree, its top node included,
\* carries the polygon and hole flag of a real output contour (an engine node
\* other than the root container)
C9_EveryNodeIsAContour ==
    \A b \in BuilderIds :
        Pristine(b) =>
            \A node \in NodesOf(ret[b].tree) :
                \E i \in 2..Len(out[b].tree) : Carries(node, out[b].tree, i)

\* C9 as amended: the returned tree is a single node that stands for the
\* engine's root container (the root's own hole flag and its empty polygon);
\* its children are the reconstructions of the root's direct children, in the
\* engine's order, and every node below the top carries a real output contour
C9_RootContainerReturned ==
    \A b \in BuilderIds :
        Pristine(b) =>
            LET t == out[b].tree
                top == ret[b].tree
            IN  /\ Carries(top, t, 1)
                /\ top.polygon = <<>>
                /\ Len(top.children) = Len(t[1].children)
                /\ \A j \in 1..Len(top.children) :
                      /\ Carries(top.children[j], t, t[1].children[j])
                      /\ \A node \in NodesOf(top.children[j]) :
                            \E i \in 2..Len(t) : Carries(node, t, i)

C9_Witness ==
    \E b \in BuilderIds :
        /\ Pristine(b)
        /\ Len(ret[b].tree.children) = 2
        /\ Len(ret[b].tree.children[1].children) = 1

\* every hole below node is a child of a solid node, or of the top node
RECURSIVE HolesUnderSolids(_, _)
HolesUnderSolids(node, top) ==
    \A i \in 1..Len(node.children) :
        /\ node.children[i].is_hole => (top \/ ~node.is_hole)
        /\ HolesUnderSolids(node.children[i], FALSE)

\* C10 as claimed: in the returned tree, and after any removals and pushes
\* through get_child_mut and children_mut, every hole is a direct child of a
\* solid node or of the root
C10_HolesNeverUnderHoles ==
    \A b \in BuilderIds :
        HasTree(b) => HolesUnderSolids(ret[b].tree, TRUE)

\* C10 as amended: this holds of the tree as returned, and of the tree and the
\* node taken out of it after removals alone; pushing a removed node onto
\* another node's children can put a hole directly under a hole
C10_HolesUnderSolidsUntilPush ==
    \A b \in BuilderIds :
        HasTree(b) /\ edits[b].pushed = 0 =>
            /\ HolesUnderSolids(ret[b].tree, TRUE)
            /\ held[b] # Null => HolesUnderSolids(held[b], TRUE)

C10_Witness ==
    \E b \in BuilderIds :
        /\ HasTree(b) /\ edits[b].pushed = 0 /\ edits[b].removed = 1
        /\ held[b].is_hole
        /\ \E i \in 1..Len(ret[b].tree.children) :
              \E j \in 1..Len(ret[b].tree.children[i].children) :
                  ret[b].tree.children[i].children[j].is_hole

\* the primitives that read engine node n of the tree at tree_ptr
NodeReads(tree_ptr, n, f) ==
    {i \in 1..Len(calls) :
        /\ calls[i].f = f
        /\ IF f = "clipper_polytree64_polygon"
           THEN calls[i].args = <<NodePtr(tree_ptr, n)>>
           ELSE calls[i].ptr = NodePtr(tree_ptr, n)}

\* the owned node mirrors engine node n: same hole flag and contour, as many
\* children, the i-th child mirrors the engine's i-th child, none beyond
RECURSIVE Mirrors(_, _, _)
Mirrors(node, t, n) ==
    /\ Carries(node, t, n)
    /\ is_hole(node) = t[n].is_hole
    /\ child_count(node) = Len(t[n].children)
    /\ \A i \in 0..(child_count(node) - 1) :
          /\ get_child(node, i) # None
          /\ Mirrors(get_child(node, i), t, t[n].children[i + 1])
    /\ get_child(node, child_count(node)) = None

\* C11: from_ptr reads the engine tree in one walk -- the hole flag, the
\* contour and the child count of every engine node exactly once, every child
\* fetched exactly once from its parent -- and the owned tree it yields mirrors
\* the engine tree node for node
C11_FromPtrMirrorsEngineTree ==
    \A b \in BuilderIds :
        Pristine(b) =>
            LET t == out[b].tree
                tree_ptr == arg[b].tree_ptr
            IN  /\ Mirrors(ret[b].tree, t, 1)
                /\ \A n \in 1..Len(t) :
                      /\ \A f \in {"clipper_polytree64_is_hole",
                                    "clipper_polytree64_polygon",
                                    "clipper_polytree64_count"} :
                            Cardinality(NodeReads(tree_ptr, n, f)) = 1
                      /\ \A i \in 0..(Len(t[n].children) - 1) :
                            Cardinality(
                                {k \in NodeReads(tree_ptr, n,
                                                 "clipper_polytree64_get_child") :
                                    calls[k].args = <<i>>}) = 1
                      /\ Cardinality(NodeReads(tree_ptr, n,
                                               "clipper_polytree64_get_child"))
                            = Len(t[n].children)

C11_Witness ==
    \E b \in BuilderIds :
        /\ Pristine(b)
        /\ child_count(ret[b].tree) = 1
        /\ child_count(get_child(ret[b].tree, 0)) = 2
        /\ is_hole(get_child(get_child(ret[b].tree, 0), 1))

\* index sequence p comes before q in a pre-order walk: a node before its
\* descendants, a child's subtree before the next child's
RECURSIVE Before(_, _)
Before(p, q) ==
    /\ q # <<>>
    /\ \/ p = <<>>
       \/ Head(p) < Head(q)
       \/ Head(p) = Head(q) /\ Before(Tail(p), Tail(q))

RECURSIVE InPreOrder(_)
InPreOrder(S) ==
    IF S = {} THEN <<>>
    ELSE LET first == CHOOSE p \in S : \A q \in S \ {p} : Before(p, q)
         IN  <<first>> \o InPreOrder(S \ {first})

\* node and its descendants, in pre-order
PreOrder(node) ==
    LET walk == InPreOrder(ChildPaths(node))
    IN  [k \in 1..Len(walk) |-> NodeAt(node, walk[k])]

\* the trees a caller can hold: the returned tree and a node taken out of it
TreesOf(b) ==
    IF ~HasTree(b) THEN {}
    ELSE {ret[b].tree} \cup (IF held[b] # Null THEN {held[b]} ELSE {})

\* C12: for every node, to_paths() is the polygons of the node and of all its
\* descendants in pre-order, and get_hole_paths() is, in the same order, the
\* polygons of exactly those of them whose is_hole is true
C12_PathsInPreOrder ==
    \A b \in BuilderIds :
        \A tree \in TreesOf(b) :
            \A node \in NodesOf(tree) :
                LET walk == PreOrder(node)
                    holes == SelectSeq(walk, LAMBDA x : x.is_hole)
                IN  /\ to_paths(node) = [k \in 1..Len(walk) |-> walk[k].polygon]
                    /\ get_hole_paths(node) =
                           [k \in 1..Len(holes) |-> holes[k].polygon]

C12_Witness ==
    \E b \in BuilderIds :
        /\ Pristine(b)
        /\ Len(to_paths(ret[b].tree)) = 4
        /\ Len(get_hole_paths(ret[b].tree)) = 1
        /\ child_count(ret[b].tree) = 2
        /\ child_count(get_child(ret[b].tree, 0)) = 1

\* the engine's result is one outer contour (node 2) with one hole (node 3)
OuterWithOneHole(t) ==
    /\ Len(t) = 3
    /\ t[1].children = <<2>> /\ t[2].children = <<3>> /\ t[3].children = <<>>
    /\ ~t[2].is_hole /\ t[3].is_hole

\* contour p64 of the engine in application coordinates
Descaled(p64) ==
    [k \in 1..Len(p64) |-> << <<p64[k][1], Multiplier>>, <<p64[k][2], Multiplier>> >>]

\* C13: when the engine's result is one outer contour with exactly one hole,
\* the returned tree has exactly one top-level node; it is not a hole, it has a
\* single child, that child is a hole, its to_paths() has exactly two contours,
\* and get_hole_paths() (of the tree and of the top-level node) is exactly the
\* hole's polygon
C13_OuterWithOneHole ==
    \A b \in BuilderIds :
        Pristine(b) /\ OuterWithOneHole(out[b].tree) =>
            LET tree == ret[b].tree
                top == get_child(tree, 0)
            IN  /\ child_count(tree) = 1
                /\ ~is_hole(top)
                /\ child_count(top) = 1
                /\ is_hole(get_child(top, 0))
                /\ Len(to_paths(top)) = 2
                /\ get_hole_paths(top) = <<Descaled(out[b].tree[3].polygon)>>
                /\ get_hole_paths(tree) = <<Descaled(out[b].tree[3].polygon)>>

C13_Witness ==
    \E b \in BuilderIds :
        /\ Pristine(b)
        /\ OuterWithOneHole(out[b].tree)
        /\ Len(get_hole_paths(ret[b].tree)) = 1

\* the positions in the log of the calls of the primitives in fs
CallsOf(fs) == {i \in 1..Len(calls) : calls[i].f \in fs}

\* what registration call i handed to the engine: the content of its buffer
Registered(i) ==
    LET made == CHOOSE k \in 1..Len(calls) :
                    /\ calls[k].f = "to_clipperpaths64"
                    /\ calls[k].ptr = calls[i].args[1]
    IN  calls[made].args[1]

\* paths of the engine in application coordinates
DescaledPaths(paths64) == [k \in 1..Len(paths64) |-> Descaled(paths64[k])]

\* C14: union(subject, clip, fill_rule) is the chain
\* Clipper::new().add_subject(subject).add_clip(clip).union(fill_rule); when
\* it has returned it has allocated one handle, registered the subject once
\* and then the clip once on it, executed exactly once (flat, Union, the
\* caller's fill rule), released the handle exactly once after that, and its
\* value is Ok with exactly the engine's closed and open output, or
\* Err(FailedBooleanOperation) when the engine failed
C14_UnionIsTheChain ==
    \A b \in OneBuilder :
        input # Null /\ pc[b] = "returned" =>
            LET news == CallsOf({"clipper_clipper64"})
                regs == SortedSeq(CallsOf(RegisterFns))
                execs == CallsOf(ExecuteFns)
                dels == CallsOf({"clipper_delete_clipper64"})
            IN  /\ api[b] = << [method |-> "new", args |-> <<>>],
                               [method |-> "add_subject", args |-> <<input.subject>>],
                               [method |-> "add_clip", args |-> <<input.clip>>],
                               [method |-> "union", args |-> <<input.fill_rule>>] >>
                /\ Cardinality(news) = 1
                /\ Len(regs) = 2
                /\ Cardinality(execs) = 1
                /\ Cardinality(dels) = 1
                /\ \E n \in news, e \in execs, d \in dels :
                      LET h == calls[n].ptr
                      IN  /\ n < regs[1] /\ regs[2] < e /\ e < d
                          /\ calls[regs[1]].f = "clipper_clipper64_add_subject"
                          /\ calls[regs[1]].ptr = h
                          /\ Registered(regs[1]) = to_clipperpaths64(input.subject)
                          /\ calls[regs[2]].f = "clipper_clipper64_add_clip"
                          /\ calls[regs[2]].ptr = h
                          /\ Registered(regs[2]) = to_clipperpaths64(input.clip)
                          /\ calls[e].f = "clipper_clipper64_execute"
                          /\ calls[e].ptr = h
                          /\ calls[e].args[1] = ClipType_into("Union")
                          /\ calls[e].args[2] = FillRule_into(input.fill_rule)
                          /\ calls[d].ptr = h
                /\ IF out[b].success = 1
                   THEN ret[b] = [tag |-> "Ok",
                                  closed |-> DescaledPaths(out[b].closed),
                                  open |-> DescaledPaths(out[b].open)]
                   ELSE ret[b] = [tag |-> "Err", error |-> "FailedBooleanOperation"]

C14_Witness ==
    \E b \in OneBuilder :
        /\ input # Null /\ pc[b] = "returned"
        /\ input.subject # input.clip
        /\ ret[b].tag = "Ok"
        /\ ret[b].closed # <<>>
        /\ ret[b].open = <<>>

\* the clip type and the execute primitive of each boolean operation
ClipTypeOf ==
    [union |-> "Union", difference |-> "Difference",
     intersect |-> "Intersection", xor |-> "Xor",
     union_tree |-> "Union", difference_tree |-> "Difference",
     intersect_tree |-> "Intersection", xor_tree |-> "Xor"]

ExecuteOf ==
    [m \in DOMAIN ClipTypeOf |->
        IF m \in {"union", "difference", "intersect", "xor"}
        THEN "clipper_clipper64_execute"
        ELSE "clipper_clipper64_execute_tree_with_open"]

\* the boolean operation the caller invoked on builder b, if any
Operation(b) ==
    IF api[b] # <<>> /\ api[b][Len(api[b])].method \in DOMAIN ClipTypeOf
    THEN api[b][Len(api[b])]
    ELSE Null

\* C15: every execute call is the call of the caller's boolean operation: the
\* flat primitive for union, difference, intersect and xor and the tree
\* primitive for the *_tree operations, with the operation's own clip type and
\* the caller's fill rule; an operation past its execute statement has made
\* exactly one such call
C15_OwnClipTypeAndFillRule ==
    \A b \in OneBuilder :
        /\ \A e \in CallsOf(ExecuteFns) :
              /\ Operation(b) # Null
              /\ calls[e].f = ExecuteOf[Operation(b).method]
              /\ calls[e].args[1] = ClipType_into(ClipTypeOf[Operation(b).method])
              /\ calls[e].args[2] = FillRule_into(Operation(b).args[1])
        /\ Operation(b) # Null /\ pc[b] \notin {"bo_333", "bt_409"} =>
              Cardinality(CallsOf(ExecuteFns)) = 1

C15_Witness ==
    \E b \in OneBuilder :
        /\ pc[b] = "returned"
        /\ Operation(b) # Null
        /\ Operation(b).method = "intersect"
        /\ Operation(b).args = <<"EvenOdd">>
        /\ CallsOf(ExecuteFns) # {}

\* the primitives that allocate on the engine's side, each with the primitive
\* that releases what it allocated
ReleaseOf ==
    [clipper_clipper64 |-> "clipper_delete_clipper64",
     to_clipperpaths64 |-> "clipper_delete_paths64",
     clipper_paths64 |-> "clipper_delete_paths64",
     clipper_polytree64 |-> "clipper_delete_polytree64",
     clipper_polytree64_polygon |-> "clipper_delete_path64"]

AllocFns == DOMAIN ReleaseOf

ReleaseFns == {ReleaseOf[f] : f \in AllocFns}

\* the positions in log of the allocations not released later in log
LiveIn(log) ==
    {i \in 1..Len(log) :
        /\ log[i].f \in AllocFns
        /\ ~\E j \in (i + 1)..Len(log) :
               log[j].f = ReleaseOf[log[i].f] /\ log[j].ptr = log[i].ptr}

Succeeded(b) == pc[b] = "returned" /\ ret[b].tag \in {"Ok", "OkTree"}

\* C16: once a boolean operation has returned Ok, nothing it allocated on the
\* engine's side is live, and no query of the result (child_count, get_child,
\* is_hole, polygon, area, to_paths, get_hole_paths, children) calls the engine
C16_ResultIndependentOfEngine ==
    [][\A b \in OneBuilder :
          /\ Succeeded(b)' => LiveIn(calls') = {}
          /\ query'[b] # query[b] => calls' = calls]_vars

C16_Witness ==
    \E b \in OneBuilder :
        /\ Succeeded(b)
        /\ query[b] # Null
        /\ query[b].method = "area"
        /\ query[b].path # <<>>
        /\ query[b].result[1] # 0

\* C17: two builders that were given the same add_* calls with the same
\* geometry and the same boolean operation with the same fill rule have
\* returned the same result, however their method calls were interleaved
C17_SameCallsSameResult ==
    pc[1] = "returned" /\ pc[2] = "returned" /\ api[1] = api[2] =>
        ret[1] = ret[2]

C17_Witness ==
    /\ pc[1] = "returned" /\ pc[2] = "returned"
    /\ api[1] = api[2]
    /\ ret[1].tag = "Ok"
    /\ ret[1].closed # <<>>
    /\ \E i, j \in 1..Len(calls) :
          /\ i < j
          /\ calls[i].f \in RegisterFns /\ calls[j].f \in RegisterFns
          /\ calls[i].ptr = Ptr(2) /\ calls[j].ptr = Ptr(1)

\* the positions in the log of the releases of what call i allocated
ReleasesOf(i) ==
    {j \in 1..Len(calls) :
        calls[j].f = ReleaseOf[calls[i].f] /\ calls[j].ptr = calls[i].ptr}

\* the allocations made inside add_* calls and boolean operations: all but the
\* handle, which Clipper::new allocates for the builder's whole life
Transient == AllocFns \ {"clipper_clipper64"}

\* C18: what an add_* call or a boolean operation allocates on the engine's
\* side (the input buffer of an add_*, the two output buffers of a flat
\* operation, the tree and the open buffer of a tree operation, the polygon
\* buffer of each tree node) is never released twice, is released only after
\* it was allocated, and has been released exactly once when the call has
\* returned, with Ok or with Err
C18_ScopedAllocations ==
    /\ \A i \in CallsOf(Transient) :
          LET released == ReleasesOf(i)
          IN  /\ Cardinality(released) <= 1
              /\ \A j \in released : i < j
              /\ NoneRunning => released # {}
    /\ \A j \in CallsOf(ReleaseFns \ {"clipper_delete_clipper64"}) :
          \E i \in 1..(j - 1) :
              /\ calls[i].ptr = calls[j].ptr
              /\ calls[i].f \in Transient
              /\ ReleaseOf[calls[i].f] = calls[j].f

C18_Witness ==
    \E b \in OneBuilder :
        /\ pc[b] = "returned"
        /\ ret[b].tag = "Err"
        /\ CallsOf({"clipper_polytree64"}) # {}
        /\ Cardinality(CallsOf({"to_clipperpaths64"})) = MaxAdds

\* the primitives from_ptr reads an engine node with
TreeReadFns == {"clipper_polytree64_is_hole", "clipper_polytree64_polygon",
                "clipper_polytree64_count", "clipper_polytree64_get_child"}

\* the positions in the log of the reads of any node of the tree at tree_ptr
TreeReads(tree_ptr) ==
    {i \in CallsOf(TreeReadFns) :
        IF calls[i].f = "clipper_polytree64_polygon"
        THEN calls[i].args[1][1] = tree_ptr[1]
        ELSE calls[i].ptr[1] = tree_ptr[1]}

\* C19: in a successful tree operation every node of the engine tree has been
\* read by from_ptr before clipper_delete_polytree64 is called, no node is
\* read after it, the tree is released exactly once and through the root
\* handle, and no pointer to a child node is ever released
C19_TreeReleasedOnceAfterTheWalk ==
    \A b \in OneBuilder :
        /\ \A j \in CallsOf(ReleaseFns) : calls[j].ptr[2] <= 1
        /\ pc[b] \in {"bt_434", "returned"} /\ ret[b].tag = "OkTree" =>
              LET tree_ptr == arg[b].tree_ptr
                  dels == CallsOf({"clipper_delete_polytree64"})
              IN  /\ Cardinality(dels) = 1
                  /\ \A d \in dels :
                        /\ calls[d].ptr = tree_ptr
                        /\ \A i \in TreeReads(tree_ptr) : i < d
                        /\ \A n \in 1..Len(out[b].tree) :
                              \A f \in {"clipper_polytree64_is_hole",
                                        "clipper_polytree64_polygon",
                                        "clipper_polytree64_count"} :
                                  \E i \in NodeReads(tree_ptr, n, f) : i < d

C19_Witness ==
    \E b \in OneBuilder :
        /\ pc[b] = "returned" /\ ret[b].tag = "OkTree"
        /\ Len(out[b].tree) = MaxTreeNodes + 1
        /\ CallsOf({"clipper_delete_polytree64"}) # {}
        /\ \E i \in CallsOf({"clipper_polytree64_get_child"}) : calls[i].ptr[2] = 2

\* the registration primitive of each add_* method
RegisterOf ==
    [add_subject |-> "clipper_clipper64_add_subject",
     add_open_subject |-> "clipper_clipper64_add_open_subject",
     add_clip |-> "clipper_clipper64_add_clip"]

\* an add_* call of b that changes the state has not yet delegated
InTransition(b) == pc[b] \notin Quiescent /\ arg[b] # Null /\ "geom" \in DOMAIN arg[b]

\* C20: the engine's registration calls are the caller's add_* calls, one for
\* one in the caller's order: the k-th registration has the category and the
\* geometry of the k-th add_* call and goes to the handle that Clipper::new
\* allocated, which every wrapper of the builder carries; only the add_* call
\* in progress, if it changes the state, has its registration still to come
C20_RegistrationsAreTheAdds ==
    \A b \in OneBuilder :
        api[b] # <<>> =>
            LET h == calls[CHOOSE i \in CallsOf({"clipper_clipper64"}) : TRUE].ptr
                regs == SortedSeq(CallsOf(RegisterFns))
                adds == Adds(api[b])
            IN  /\ Cardinality(CallsOf({"clipper_clipper64"})) = 1
                /\ \A w \in Live(b) : w.ptr = h
                /\ Len(regs) = Len(adds) - (IF InTransition(b) THEN 1 ELSE 0)
                /\ \A k \in 1..Len(regs) :
                      /\ calls[regs[k]].f = RegisterOf[adds[k].method]
                      /\ calls[regs[k]].ptr = h
                      /\ Registered(regs[k]) = to_clipperpaths64(adds[k].args[1])

C20_Witness ==
    \E b \in OneBuilder :
        /\ pc[b] = "idle"
        /\ Len(Adds(api[b])) = 3
        /\ Adds(api[b])[1].method = "add_open_subject"
        /\ Adds(api[b])[2].method = "add_subject"
        /\ Adds(api[b])[3].method = "add_clip"
        /\ Adds(api[b])[1].args # Adds(api[b])[2].args
        /\ Cardinality(CallsOf(RegisterFns)) = 3

\* the pointers call i hands to the engine for it to use: the handle and the
\* buffers of a registration or an execute call, the buffer or the node a
\* read is made on, what a release is asked to release
PointersOf(i) ==
    LET c == calls[i]
    IN  IF c.f \in RegisterFns THEN {c.ptr, c.args[1]}
        ELSE IF c.f \in ExecuteFns THEN {c.ptr, c.args[3], c.args[4]}
        ELSE IF c.f = "clipper_polytree64_polygon" THEN {c.args[1]}
        ELSE IF c.f \in (TreeReadFns \cup ReleaseFns
                          \cup {"from_clipperpaths64", "Path_from_clipperpath64"})
             THEN {c.ptr}
        ELSE {}

\* pointer p was released before call i: its allocation was (the release of a
\* tree releases every node of the tree)
ReleasedBefore(p, i) ==
    \E j \in 1..(i - 1) : calls[j].f \in ReleaseFns /\ calls[j].ptr[1] = p[1]

\* C21: no engine primitive is invoked on something already released: not a
\* registration or an execute on a deleted handle, not a read of a Paths buffer
\* after its clipper_delete_paths64, not a read of a tree node after
\* clipper_delete_polytree64, not a read of a polygon buffer after its
\* clipper_delete_path64, and no release of what was released
C21_NoUseAfterRelease ==
    \A i \in 1..Len(calls) :
        \A p \in PointersOf(i) : ~ReleasedBefore(p, i)

C21_Witness ==
    \E b \in OneBuilder :
        /\ pc[b] = "returned"
        /\ ret[b].tag = "OkTree"
        /\ Len(Adds(api[b])) = MaxAdds
        /\ CallsOf({"clipper_polytree64_get_child"}) # {}
        /\ CallsOf({"clipper_delete_clipper64"}) # {}

\* the number of nodes of the subtree of node, and of those that are holes
RECURSIVE NodeCount(_, _)
NodeCount(node, holes_only) ==
    LET below[i \in 0..Len(node.children)] ==
            IF i = 0 THEN 0
            ELSE below[i - 1] + NodeCount(node.children[i], holes_only)
    IN  (IF holes_only /\ ~node.is_hole THEN 0 ELSE 1)
          + below[Len(node.children)]

\* sequence s is t with some elements left out
RECURSIVE IsSubsequence(_, _)
IsSubsequence(s, t) ==
    IF s = <<>> THEN TRUE
    ELSE IF t = <<>> THEN FALSE
    ELSE IF Head(s) = Head(t) THEN IsSubsequence(Tail(s), Tail(t))
    ELSE IsSubsequence(s, Tail(t))

\* C22: for every node, to_paths() has one contour per node of the subtree:
\* as many contours as the subtree has nodes, never none, the first being the
\* node's own polygon even when that has no points; get_hole_paths() is a
\* subsequence of to_paths() with as many contours as the subtree has holes
C22_OneContourPerNode ==
    \A b \in BuilderIds :
        \A tree \in TreesOf(b) :
            \A node \in NodesOf(tree) :
                /\ Len(to_paths(node)) = NodeCount(node, FALSE)
                /\ to_paths(node) # <<>>
                /\ to_paths(node)[1] = node.polygon
                /\ Len(get_hole_paths(node)) = NodeCount(node, TRUE)
                /\ IsSubsequence(get_hole_paths(node), to_paths(node))

C22_Witness ==
    \E b \in BuilderIds :
        /\ Pristine(b)
        /\ ret[b].tree.polygon = <<>>
        /\ to_paths(ret[b].tree)[1] = <<>>
        /\ Len(to_paths(ret[b].tree)) = MaxTreeNodes + 1
        /\ Len(get_hole_paths(ret[b].tree)) = 2

====
